---- MODULE Spec2Model ----
(***************************************************************************)
(* A model of postagger.py: vocabulary construction (make_dict), batch     *)
(* formation (create_one_batch, create_batches), evaluation (eval_model)   *)
(* and the epoch loop with best-checkpoint selection (train_model,         *)
(* train_and_test).                                                        *)
(*                                                                         *)
(* Python strings are sequences of one-character strings, so that sorting  *)
(* (code-point order) and str.replace / strip / split are computed rather  *)
(* than assumed.  Python dicts keep their insertion order: a dict is a     *)
(* record [keys, val] with keys the insertion-ordered key list.            *)
(* Python's 0-based position j is position j + 1 here.                     *)
(***************************************************************************)
EXTENDS Integers, Sequences, FiniteSets, Bags, TLC

VARIABLES
    pc,             \* where train_and_test is: "start", "batch_train", ... "done", "failed"
    opt,            \* the parsed command line (the fields the pipeline reads)
    files,          \* the file system: path -> content
    train_x, train_y, dev_x, dev_y, test_x, test_y,   \* the corpora as load_data returns them
    word2id, label2id, id2label,                        \* make_dict's three dicts
    dict_err,       \* the exception make_dict raised, "" when it returned
    cb,             \* arguments of a direct create_batches call: [sort, shuffle, has_text]
    train_batches, dev_batches, test_batches,           \* create_batches' results
    best_valid, test_result, epoch,                     \* the epoch loop's locals
    epoch_batches,  \* the batch order train_model iterated in the last epoch
    model_version,  \* the number of training epochs the model parameters have seen
    tmp_count,      \* the number of temporary files mkstemp has created
    last_eval,      \* what the last eval_model call did
    hist,           \* per finished validation: [f1, wrote, before, after]
    n_train_bucketings  \* the number of create_batches calls made on the training corpus

vars == <<pc, opt, files, train_x, train_y, dev_x, dev_y, test_x, test_y,
          word2id, label2id, id2label, dict_err, cb,
          train_batches, dev_batches, test_batches,
          best_valid, test_result, epoch, epoch_batches, model_version,
          tmp_count, last_eval, hist, n_train_bucketings>>

-----------------------------------------------------------------------------
(* Bounds of the model.                                                    *)

MaxLen == 2          \* longest sentence (tokens) and longest tag sequence
MaxSents == 2        \* most sentences in a corpus given to make_dict
MaxFileLen == 3      \* most characters in the label-list file
MaxExamples == 3     \* most examples in a corpus given to create_batches
MaxBatch == 2        \* largest batch size
MaxEpoch == 3        \* largest opt.max_epoch
MaxF1 == 2           \* validation / test F1 values are 0 .. MaxF1
MaxPred == 1         \* the network's predictions follow one of the patterns 0 .. MaxPred

-----------------------------------------------------------------------------
(* Strings.                                                                *)

S_oov == <<"<", "o", "o", "v", ">">>
S_pad == <<"<", "p", "a", "d", ">">>
S_O == <<"O">>
S_a == <<"a">>
S_b == <<"b">>
S_N == <<"N">>
S_BN == <<"B", "-", "N">>
S_IN == <<"I", "-", "N">>
S_IV == <<"I", "-", "V">>

\* The code point of a character: Python compares str by code point.
Ord(c) ==
    CASE c = "\n" -> 10 [] c = "-" -> 45 [] c = "<" -> 60 [] c = ">" -> 62
      [] c = "B" -> 66 [] c = "I" -> 73 [] c = "N" -> 78 [] c = "O" -> 79
      [] c = "V" -> 86 [] c = "a" -> 97 [] c = "b" -> 98 [] c = "d" -> 100
      [] c = "o" -> 111 [] c = "p" -> 112 [] c = "v" -> 118

RECURSIVE StrLess(_, _)
\* s < t for Python str
StrLess(s, t) ==
    IF t = <<>> THEN FALSE
    ELSE IF s = <<>> THEN TRUE
    ELSE IF s[1] = t[1] THEN StrLess(Tail(s), Tail(t))
    ELSE Ord(s[1]) < Ord(t[1])

RemoveAt(l, i) == [k \in 1..(Len(l) - 1) |-> IF k < i THEN l[k] ELSE l[k + 1]]

RECURSIVE sorted(_)
\* sorted(l) for a list of str
sorted(l) ==
    IF l = <<>> THEN <<>>
    ELSE LET i == CHOOSE i \in DOMAIN l :
                     /\ \A j \in DOMAIN l : ~StrLess(l[j], l[i])
                     /\ \A j \in 1..(i - 1) : l[j] # l[i]
         IN  <<l[i]>> \o sorted(RemoveAt(l, i))

RECURSIVE SetToList(_)
\* list(s) for a set s: some order (sorted() is applied to the result)
SetToList(S) ==
    IF S = {} THEN <<>>
    ELSE LET x == CHOOSE x \in S : TRUE IN <<x>> \o SetToList(S \ {x})

RECURSIVE replace(_, _, _)
\* s.replace(c1 + c2, '') for a two-character pattern
replace(s, c1, c2) ==
    IF Len(s) < 2 THEN s
    ELSE IF s[1] = c1 /\ s[2] = c2 THEN replace(SubSeq(s, 3, Len(s)), c1, c2)
    ELSE <<s[1]>> \o replace(Tail(s), c1, c2)

IsSpace(c) == c = "\n"

RECURSIVE lstrip(_)
lstrip(s) == IF s # <<>> /\ IsSpace(s[1]) THEN lstrip(Tail(s)) ELSE s

RECURSIVE rstrip(_)
rstrip(s) ==
    IF s # <<>> /\ IsSpace(s[Len(s)]) THEN rstrip(SubSeq(s, 1, Len(s) - 1)) ELSE s

\* s.strip()
strip(s) == rstrip(lstrip(s))

RECURSIVE split(_)
\* s.split('\n'): always at least one piece
split(s) ==
    IF \A i \in DOMAIN s : s[i] # "\n" THEN <<s>>
    ELSE LET i == CHOOSE i \in DOMAIN s :
                     s[i] = "\n" /\ \A j \in 1..(i - 1) : s[j] # "\n"
         IN  <<SubSeq(s, 1, i - 1)>> \o split(SubSeq(s, i + 1, Len(s)))

-----------------------------------------------------------------------------
(* Python dicts.                                                           *)

DEmpty == [keys |-> <<>>, val |-> <<>>]
DHas(d, k) == k \in DOMAIN d.val
DLen(d) == Len(d.keys)
\* d[k] = v
DSet(d, k, v) ==
    [keys |-> IF DHas(d, k) THEN d.keys ELSE Append(d.keys, k),
     val |-> [x \in (DOMAIN d.val) \cup {k} |-> IF x = k THEN v ELSE d.val[x]]]
\* d.get(k, default)
DGet(d, k, default) == IF DHas(d, k) THEN d.val[k] ELSE default

\* the id a new entry gets: len(d), evaluated before the assignment
NextId(d) == DLen(d)

RECURSIVE AddAll(_, _)
\* for k in l: d[k] = len(d)
AddAll(d, l) ==
    IF l = <<>> THEN d ELSE AddAll(DSet(d, l[1], NextId(d)), Tail(l))

-----------------------------------------------------------------------------
(* make_dict                                                               *)

RECURSIVE flatten(_)
\* list of list to list
flatten(l) == IF l = <<>> THEN <<>> ELSE l[1] \o flatten(Tail(l))

\* remove B- and I-
purify(l) == {replace(replace(l[i], "B", "-"), "I", "-") : i \in DOMAIN l}

RECURSIVE BIPairs(_)
\* the keys the label loop inserts: B-label, I-label for each label in turn
BIPairs(label_set) ==
    IF label_set = <<>> THEN <<>>
    ELSE <<<<"B", "-">> \o label_set[1], <<"I", "-">> \o label_set[1]>>
         \o BIPairs(Tail(label_set))

RECURSIVE Invert(_, _, _)
\* dict([(idx, label) for label, idx in d.items()]): a later item replaces an earlier one
Invert(d, i, acc) ==
    IF i > Len(d.keys) THEN acc
    ELSE Invert(d, i + 1, DSet(acc, d.val[d.keys[i]], d.keys[i]))

LabelPath == "labels.txt"

\* the label list make_dict works from, before sorting
label_list(o, fs, tr_y, dv_y, te_y) ==
    IF o.label_set_path # ""
    THEN split(strip(fs[o.label_set_path]))
    ELSE SetToList(purify(flatten(tr_y)) \cup purify(flatten(dv_y))
                   \cup purify(flatten(te_y)))

make_dict(o, fs, tr_x, tr_y, dv_y, te_y) ==
    IF o.label_set_path # "" /\ o.label_set_path \notin DOMAIN fs
    THEN [err |-> "IOError", word2id |-> DEmpty, label2id |-> DEmpty, id2label |-> DEmpty]
    ELSE LET word_set == sorted(SetToList({flatten(tr_x)[i] : i \in DOMAIN flatten(tr_x)}))
             label_set == sorted(label_list(o, fs, tr_y, dv_y, te_y))
             w2i == AddAll(DEmpty, <<S_oov, S_pad>> \o word_set)
             l2i == AddAll(AddAll(DEmpty, <<S_pad, S_O>>), BIPairs(label_set))
         IN  [err |-> "", word2id |-> w2i, label2id |-> l2i,
              id2label |-> Invert(l2i, 1, DEmpty)]

-----------------------------------------------------------------------------
(* create_one_batch, create_batches                                        *)

Range(n) == [i \in 1..n |-> i]

\* the orders random.shuffle can leave a list of n elements in
Perms(n) == {p \in [1..n -> 1..n] : \A i, j \in 1..n : p[i] = p[j] => i = j}

\* what a list of n elements can be after "if called: random.shuffle(lst)"
Shuffles(n, called) == IF called THEN Perms(n) ELSE {Range(n)}

SeqMax(l) == CHOOSE m \in {l[i] : i \in DOMAIN l} : \A i \in DOMAIN l : l[i] <= m

Min2(a, b) == IF a < b THEN a ELSE b

RECURSIVE SeqSum(_)
SeqSum(l) == IF l = <<>> THEN 0 ELSE l[1] + SeqSum(Tail(l))

RECURSIVE sort_by_len(_, _)
\* sorted(lst, key=lambda i: -len(x[i])): stable, longest first
sort_by_len(lst, x) ==
    IF lst = <<>> THEN <<>>
    ELSE LET i == CHOOSE i \in DOMAIN lst :
                     /\ \A j \in DOMAIN lst : Len(x[lst[j]]) <= Len(x[lst[i]])
                     /\ \A j \in 1..(i - 1) : Len(x[lst[j]]) < Len(x[lst[i]])
         IN  <<lst[i]>> \o sort_by_len(RemoveAt(lst, i), x)

\* lens = [len(x[i]) for i in lst], read after x has been reordered by lst
batch_lens(xs, lst) == [i \in DOMAIN lst |-> Len(xs[lst[i]])]

\* one row of batch_x: the token ids, then pad_id up to max_len
row_x(x_i, max_len, w2i, oov_id, pad_id) ==
    [j \in 1..max_len |-> IF j <= Len(x_i) THEN DGet(w2i, x_i[j], oov_id) ELSE pad_id]

\* one row of batch_y: the tag ids, then label_pad_id up to max_len
row_y(y_i, max_len, l2i, label_pad_id) ==
    [j \in 1..max_len |-> IF j <= Len(y_i) THEN l2i.val[y_i[j]] ELSE label_pad_id]

NoBatch == [err |-> "", x |-> <<>>, y |-> <<>>, lens |-> <<>>]

create_one_batch(x, y, w2i, l2i, sort) ==
    LET batch_size == Len(x)
        lst == IF sort THEN sort_by_len(Range(batch_size), x) ELSE Range(batch_size)
        xs == [i \in 1..batch_size |-> x[lst[i]]]
        ys == [i \in 1..batch_size |-> y[lst[i]]]
        lens == batch_lens(xs, lst)
    IN  IF batch_size = 0 THEN [NoBatch EXCEPT !.err = "ValueError"]
        ELSE IF ~DHas(w2i, S_oov) \/ ~DHas(w2i, S_pad)
        THEN [NoBatch EXCEPT !.err = "AssertionError"]
        ELSE
        LET max_len == SeqMax(lens)
            oov_id == w2i.val[S_oov]
            pad_id == w2i.val[S_pad]
            label_pad_id == l2i.val[S_pad]
            \* the assignments batch_y[i][j] = label2id[y_ij] that raise
            bad == {ij \in (1..batch_size) \X (1..SeqMax([i \in 1..batch_size |-> Len(ys[i])])) :
                      /\ ij[2] <= Len(ys[ij[1]])
                      /\ (~DHas(l2i, ys[ij[1]][ij[2]]) \/ ij[2] > max_len)}
            first == CHOOSE ij \in bad : \A kl \in bad :
                         ij[1] < kl[1] \/ (ij[1] = kl[1] /\ ij[2] <= kl[2])
        IN  IF bad # {}
            THEN [NoBatch EXCEPT !.err =
                     IF ~DHas(l2i, ys[first[1]][first[2]]) THEN "KeyError"
                     ELSE "IndexError"]
            ELSE [err |-> "",
                  x |-> [i \in 1..batch_size |-> row_x(xs[i], max_len, w2i, oov_id, pad_id)],
                  y |-> [i \in 1..batch_size |-> row_y(ys[i], max_len, l2i, label_pad_id)],
                  lens |-> lens]

\* a variant that counts full batches only
nbatch_floor(n, batch_size) == n \div batch_size

\* nbatch = (len(x) - 1) // batch_size + 1
nbatch_of(n, batch_size) == (n - 1) \div batch_size + 1

\* a variant without the length sort
batch_order_unsorted(x, sort, shuffle, perm) ==
    IF shuffle THEN perm ELSE Range(Len(x))

\* lst after the optional shuffle and the optional length sort
batch_order(x, sort, shuffle, perm) ==
    LET lst == IF shuffle THEN perm ELSE Range(Len(x))
    IN  IF sort THEN sort_by_len(lst, x) ELSE lst

\* l[start_id: end_id] for the i-th batch (i from 0)
batch_slice(l, i, batch_size) ==
    SubSeq(l, i * batch_size + 1, Min2((i + 1) * batch_size, Len(l)))

\* batches_text after the two reorderings of lines 189 and 191
reorder_text(batches_text, pos_lst) ==
    LET once == [i \in DOMAIN pos_lst |-> batches_text[pos_lst[i]]]
    IN  [i \in DOMAIN pos_lst |-> once[pos_lst[i]]]

NoBatches == [err |-> "unset", x |-> <<>>, y |-> <<>>, lens |-> <<>>, text |-> <<>>,
              has_text |-> FALSE]

\* perm is what random.shuffle(lst) leaves, pos_perm what random.shuffle(pos_lst) leaves
create_batches(x, y, batch_size, w2i, l2i, sort, shuffle, has_text, text, perm, pos_perm) ==
    LET lst == batch_order(x, sort, shuffle, perm)
        xs == [i \in DOMAIN lst |-> x[lst[i]]]
        ys == [i \in DOMAIN lst |-> y[lst[i]]]
        ts == IF has_text THEN [i \in DOMAIN lst |-> text[lst[i]]] ELSE <<>>
        nbatch == nbatch_of(Len(xs), batch_size)
        one == [i \in 1..nbatch |->
                   create_one_batch(batch_slice(xs, i - 1, batch_size),
                                    batch_slice(ys, i - 1, batch_size), w2i, l2i, sort)]
        failed == {i \in 1..nbatch : one[i].err # ""}
        bx == [i \in 1..nbatch |-> one[i].x]
        by == [i \in 1..nbatch |-> one[i].y]
        bl == [i \in 1..nbatch |-> one[i].lens]
        bt == IF has_text THEN [i \in 1..nbatch |-> batch_slice(ts, i - 1, batch_size)]
              ELSE <<>>
    IN  IF failed # {}
        THEN [NoBatches EXCEPT !.err = one[CHOOSE i \in failed : \A k \in failed : i <= k].err]
        ELSE IF sort /\ ~has_text /\ nbatch > 0
        THEN [NoBatches EXCEPT !.err = "IndexError"]
        ELSE IF Len(xs) = 0
        THEN [NoBatches EXCEPT !.err = "ZeroDivisionError"]
        ELSE IF sort
        THEN [err |-> "",
              x |-> [i \in 1..nbatch |-> bx[pos_perm[i]]],
              y |-> [i \in 1..nbatch |-> by[pos_perm[i]]],
              lens |-> [i \in 1..nbatch |-> bl[pos_perm[i]]],
              text |-> IF has_text THEN reorder_text(bt, pos_perm) ELSE <<>>,
              has_text |-> has_text]
        ELSE [err |-> "", x |-> bx, y |-> by, lens |-> bl, text |-> bt,
              has_text |-> has_text]

-----------------------------------------------------------------------------
(* eval_model                                                              *)
(*                                                                         *)
(* The network is opaque: forward returns, for every position of the       *)
(* batch, a tag id in 1 .. num_tags - 1 (the arg-max over                  *)
(* tag_scores[:, :, 1:] plus one); which one is drawn with the pattern p.  *)
(* The scorer is opaque too: it either fails (the subprocess cannot run,   *)
(* or its output does not parse) or yields an F1 value.                    *)

\* opt.output when --output is not given, and when it is
None == "<None>"
OutputPath == "pred.txt"

\* output.data of model.forward(x, y) in evaluation mode
forward(x, num_tags, p) ==
    [i \in DOMAIN x |-> [j \in DOMAIN x[i] |-> 1 + ((p + i + j) % (num_tags - 1))]]

\* a variant with the two tag columns exchanged
format_line_swapped(k1, word, true_tag, predict_tag) ==
    word \o <<" ">> \o predict_tag \o <<" ">> \o true_tag

\* '{1} {2} {3}'.format(k + 1, word, true_tag, predict_tag)
format_line(k1, word, true_tag, predict_tag) ==
    word \o <<" ">> \o true_tag \o <<" ">> \o predict_tag

\* the lines printed for row bid of a batch: one per element of
\* zip(text[bid], y[bid], output_data[bid]), then an empty line
render_row(text_row, y_row, out_row, i2l) ==
    LET n == Min2(Len(text_row), Min2(Len(y_row), Len(out_row)))
    IN  [k \in 1..n |-> format_line(k, text_row[k], i2l.val[y_row[k]], i2l.val[out_row[k]])]
        \o << <<>> >>

RECURSIVE render_rows(_, _, _, _, _)
render_rows(text, y, out, i2l, bid) ==
    IF bid > Len(y) THEN <<>>
    ELSE render_row(text[bid], y[bid], out[bid], i2l)
         \o render_rows(text, y, out, i2l, bid + 1)

RECURSIVE render(_, _, _, _, _)
\* everything written to fpo: for x, y, lens, text in zip(valid_x, valid_y, valid_lens, valid_text)
render(b, i2l, num_tags, p, k) ==
    IF k > Min2(Min2(Len(b.x), Len(b.y)), Min2(Len(b.lens), Len(b.text))) THEN <<>>
    ELSE render_rows(b.text[k], b.y[k], forward(b.x[k], num_tags, p), i2l, 1)
         \o render(b, i2l, num_tags, p, k + 1)

\* the path tempfile.mkstemp(suffix='.tmp') returns for the n-th temporary file
TmpPath(n) == "tmp" \o ToString(n) \o ".tmp"

FileWrite(fs, path, content) ==
    [q \in (DOMAIN fs) \cup {path} |-> IF q = path THEN content ELSE fs[q]]
FileRemove(fs, path) == [q \in (DOMAIN fs) \ {path} |-> fs[q]]

\* line 334: os.remove(output_path)
remove_output(fs, path) == FileRemove(fs, path)

ScorerFailed == -1

\* score is ScorerFailed or the F1 the scorer printed
eval_model(b, i2l, num_tags, o, fs, tmpc, p, score) ==
    LET to_tmp == o.output = None
        output_path == IF to_tmp THEN TmpPath(tmpc + 1) ELSE o.output
        rendered == render(b, i2l, num_tags, p, 1)
        written == FileWrite(fs, output_path, rendered)
    IN  [called |-> TRUE,
         err |-> IF score = ScorerFailed THEN "ScoringError" ELSE "",
         f1 |-> score,
         path |-> output_path,
         rendered |-> rendered,
         files |-> IF score = ScorerFailed THEN written ELSE remove_output(written, output_path),
         tmp_count |-> IF to_tmp THEN tmpc + 1 ELSE tmpc]

NoEval == [called |-> FALSE, on |-> "", err |-> "", f1 |-> 0, path |-> "",
           rendered |-> <<>>]

\* what the caller keeps of an eval_model call
EvalSeen(r, on) == [called |-> TRUE, on |-> on, err |-> r.err, f1 |-> r.f1,
                    path |-> r.path, rendered |-> r.rendered]

-----------------------------------------------------------------------------
(* train_model                                                             *)

ModelPath == "model.pl"
BestInit == -100000000

\* a variant of improved that also takes a tie
improved_or_equal(dev_f1_score, best) == dev_f1_score >= best

\* line 377: if dev_f1_score > best_valid
improved(dev_f1_score, best) == dev_f1_score > best

\* the batches as one list of (x, y, lens)
BatchList(b) == [k \in DOMAIN b.x |-> [x |-> b.x[k], y |-> b.y[k], lens |-> b.lens[k]]]

\* a variant of shuffle_batches that builds the batches again from the examples
rebucket(b, perm) ==
    BatchList(create_batches(train_x, train_y, opt.batch_size, word2id, label2id,
                             TRUE, TRUE, TRUE, train_x,
                             [i \in DOMAIN train_x |-> Len(train_x) + 1 - i],
                             Range(nbatch_of(Len(train_x), opt.batch_size))))

\* lines 350-354: the batches in the order random.shuffle(lst) left
shuffle_batches(b, perm) == [i \in DOMAIN perm |-> BatchList(b)[perm[i]]]

-----------------------------------------------------------------------------
(* Inputs.                                                                 *)

\* all sequences over S of length at most n
RECURSIVE SeqsUpTo(_, _)
SeqsUpTo(S, n) ==
    IF n = 0 THEN {<<>>}
    ELSE LET shorter == SeqsUpTo(S, n - 1)
         IN  shorter \cup {Append(s, e) : s \in shorter, e \in S}

NonEmptySeqsUpTo(S, n) == SeqsUpTo(S, n) \ {<<>>}

DictWords == {S_a, S_b, S_pad}
DictTags == {S_O, S_BN, S_IV, S_N}
LabelTexts == SeqsUpTo({"N", "V", "\n"}, MaxFileLen)

\* the variables a specification does not draw as inputs
Defaults ==
    /\ pc = "start"
    /\ word2id = DEmpty /\ label2id = DEmpty /\ id2label = DEmpty
    /\ dict_err = ""
    /\ train_batches = NoBatches /\ dev_batches = NoBatches /\ test_batches = NoBatches
    /\ best_valid = BestInit /\ test_result = BestInit /\ epoch = 0
    /\ epoch_batches = <<>>
    /\ model_version = 0
    /\ tmp_count = 0
    /\ last_eval = NoEval
    /\ hist = <<>>
    /\ n_train_bucketings = 0

-----------------------------------------------------------------------------
(* make_dict on its own: the label list from a file or from the tags.      *)

InitDict ==
    /\ Defaults
    /\ cb = [sort |-> TRUE, shuffle |-> TRUE, has_text |-> TRUE]
    /\ train_x \in NonEmptySeqsUpTo(SeqsUpTo(DictWords, MaxLen), MaxSents)
    /\ dev_x = <<>> /\ test_x = <<>>
    /\ \/ /\ opt = [label_set_path |-> LabelPath, batch_size |-> 1, output |-> None,
                    max_epoch |-> 0]
          /\ \/ files = <<>>
             \/ \E text \in LabelTexts : files = [p \in {LabelPath} |-> text]
          /\ train_y = <<>> /\ dev_y = <<>> /\ test_y = <<>>
       \/ /\ opt = [label_set_path |-> "", batch_size |-> 1, output |-> None,
                    max_epoch |-> 0]
          /\ files = <<>>
          /\ train_y \in {<<s>> : s \in SeqsUpTo(DictTags, MaxLen)}
          /\ dev_y \in {<<s>> : s \in SeqsUpTo({S_BN, S_N}, 1)}
          /\ test_y \in {<<s>> : s \in SeqsUpTo({S_IN, S_N}, 1)}

\* train_and_test, line 398: word2id, label2id, id2label = make_dict(...)
MakeDict ==
    /\ pc = "start"
    /\ LET r == make_dict(opt, files, train_x, train_y, dev_y, test_y)
       IN  /\ word2id' = r.word2id
           /\ label2id' = r.label2id
           /\ id2label' = r.id2label
           /\ dict_err' = r.err
           /\ pc' = IF r.err = "" THEN "batch_train" ELSE "failed"
    /\ UNCHANGED <<opt, files, train_x, train_y, dev_x, dev_y, test_x, test_y, cb,
                   train_batches, dev_batches, test_batches, best_valid, test_result,
                   epoch, epoch_batches, model_version, tmp_count, last_eval, hist,
                   n_train_bucketings>>

NextDict == MakeDict

SpecDict == InitDict /\ [][NextDict]_vars

-----------------------------------------------------------------------------
(* create_batches on its own, for every setting of sort, shuffle and text. *)
(* The dicts come from make_dict over a training corpus that knows the     *)
(* word "a" only, so "b" is out of vocabulary; the corpus that is batched  *)
(* is drawn freely from the examples below.                                *)

\* the tag an example gives each token
TagOf(w) == IF w = S_a THEN S_O ELSE S_BN

\* the examples: token sequences over {a, b} with one tag per token
Examples ==
    {[tokens |-> t, tags |-> [j \in DOMAIN t |-> TagOf(t[j])]] :
        t \in SeqsUpTo({S_a, S_b}, MaxLen)}

TokensOf(corpus) == [i \in DOMAIN corpus |-> corpus[i].tokens]
TagsOf(corpus) == [i \in DOMAIN corpus |-> corpus[i].tags]

InitBatch ==
    /\ Defaults
    /\ cb \in [sort : BOOLEAN, shuffle : BOOLEAN, has_text : BOOLEAN]
    /\ \E bs \in 1..MaxBatch :
          opt = [label_set_path |-> "", batch_size |-> bs, output |-> None, max_epoch |-> 0]
    /\ files = <<>>
    /\ train_x = <<<<S_a>>>> /\ train_y = <<<<S_O>>>>
    /\ \E corpus \in NonEmptySeqsUpTo(Examples, MaxExamples) :
          dev_x = TokensOf(corpus) /\ dev_y = TagsOf(corpus)
    /\ test_x = <<>> /\ test_y = <<>>

\* a call create_batches(dev_x, dev_y, opt.batch_size, word2id, label2id,
\*                       sort=cb.sort, shuffle=cb.shuffle, text=dev_x or None)
CallCreateBatches ==
    /\ pc = "batch_train"
    /\ \E perm \in Shuffles(Len(dev_x), cb.shuffle) :
       \E pos_perm \in Shuffles(nbatch_of(Len(dev_x), opt.batch_size), cb.sort) :
          LET r == create_batches(dev_x, dev_y, opt.batch_size, word2id, label2id,
                                  cb.sort, cb.shuffle, cb.has_text, dev_x, perm, pos_perm)
          IN  /\ dev_batches' = r
              /\ pc' = IF r.err = "" THEN "batched" ELSE "failed"
    /\ UNCHANGED <<opt, files, train_x, train_y, dev_x, dev_y, test_x, test_y,
                   word2id, label2id, id2label, dict_err, cb,
                   train_batches, test_batches, best_valid, test_result,
                   epoch, epoch_batches, model_version, tmp_count, last_eval, hist,
                   n_train_bucketings>>

NextBatch == MakeDict \/ CallCreateBatches

SpecBatch == InitBatch /\ [][NextBatch]_vars

-----------------------------------------------------------------------------
(* train_and_test: the whole run.                                          *)
(*                                                                         *)
(* load_embedding, the construction of Model and of the optimizer, the     *)
(* gradient steps and the learning-rate decay change nothing that is       *)
(* modelled here; the parameters of the network are represented by         *)
(* model_version, the number of epochs they were trained for.              *)

ArtifactPaths == {"word2id.dict", "label2id.dict", "config.dict"}

\* lines 405-407: the training batches, sort and shuffle at their defaults
BatchTrain ==
    /\ pc = "batch_train"
    /\ \E perm \in Shuffles(Len(train_x), TRUE) :
       \E pos_perm \in Shuffles(nbatch_of(Len(train_x), opt.batch_size), TRUE) :
          LET r == create_batches(train_x, train_y, opt.batch_size, word2id, label2id,
                                  TRUE, TRUE, TRUE, train_x, perm, pos_perm)
          IN  /\ train_batches' = r
              /\ pc' = IF r.err = "" THEN "batch_dev" ELSE "failed"
    /\ n_train_bucketings' = n_train_bucketings + 1
    /\ UNCHANGED <<opt, files, train_x, train_y, dev_x, dev_y, test_x, test_y,
                   word2id, label2id, id2label, dict_err, cb,
                   dev_batches, test_batches, best_valid, test_result,
                   epoch, epoch_batches, model_version, tmp_count, last_eval, hist>>

\* lines 408-410: the validation batches, shuffle=False, sort=False
BatchDev ==
    /\ pc = "batch_dev"
    /\ LET r == create_batches(dev_x, dev_y, opt.batch_size, word2id, label2id,
                               FALSE, FALSE, TRUE, dev_x, Range(Len(dev_x)),
                               Range(nbatch_of(Len(dev_x), opt.batch_size)))
       IN  /\ dev_batches' = r
           /\ pc' = IF r.err = "" THEN "batch_test" ELSE "failed"
    /\ UNCHANGED <<opt, files, train_x, train_y, dev_x, dev_y, test_x, test_y,
                   word2id, label2id, id2label, dict_err, cb,
                   train_batches, test_batches, best_valid, test_result,
                   epoch, epoch_batches, model_version, tmp_count, last_eval, hist,
                   n_train_bucketings>>

\* lines 411-413: the test batches, shuffle=False, sort=False
BatchTest ==
    /\ pc = "batch_test"
    /\ LET r == create_batches(test_x, test_y, opt.batch_size, word2id, label2id,
                               FALSE, FALSE, TRUE, test_x, Range(Len(test_x)),
                               Range(nbatch_of(Len(test_x), opt.batch_size)))
       IN  /\ test_batches' = r
           /\ pc' = IF r.err = "" THEN "artifacts" ELSE "failed"
    /\ UNCHANGED <<opt, files, train_x, train_y, dev_x, dev_y, test_x, test_y,
                   word2id, label2id, id2label, dict_err, cb,
                   train_batches, dev_batches, best_valid, test_result,
                   epoch, epoch_batches, model_version, tmp_count, last_eval, hist,
                   n_train_bucketings>>

\* lines 421-440: word2id.dict, label2id.dict and config.dict are written, then
\* best_valid, test_result = -1e8, -1e8
WriteArtifacts ==
    /\ pc = "artifacts"
    /\ files' = FileWrite(FileWrite(FileWrite(files, "word2id.dict", word2id),
                                    "label2id.dict", label2id), "config.dict", opt)
    /\ best_valid' = BestInit
    /\ test_result' = BestInit
    /\ pc' = "epoch"
    /\ UNCHANGED <<opt, train_x, train_y, dev_x, dev_y, test_x, test_y,
                   word2id, label2id, id2label, dict_err, cb,
                   train_batches, dev_batches, test_batches,
                   epoch, epoch_batches, model_version, tmp_count, last_eval, hist,
                   n_train_bucketings>>

Scores == {ScorerFailed} \cup (0..MaxF1)

\* train_model, lines 343-370: the batches are shuffled and trained on
TrainBatches ==
    /\ pc = "epoch"
    /\ epoch < opt.max_epoch
    /\ \E perm \in Shuffles(Len(train_batches.x), TRUE) :
          epoch_batches' = shuffle_batches(train_batches, perm)
    /\ model_version' = model_version + 1
    /\ pc' = "eval_dev"
    /\ UNCHANGED <<opt, files, train_x, train_y, dev_x, dev_y, test_x, test_y,
                   word2id, label2id, id2label, dict_err, cb,
                   train_batches, dev_batches, test_batches, best_valid, test_result,
                   epoch, tmp_count, last_eval, hist, n_train_bucketings>>

\* train_model, lines 372-377, and, when there is no new record, the rest of the
\* loop body (lines 385, 442-454)
EvalDev ==
    /\ pc = "eval_dev"
    /\ \E score \in Scores, p \in 0..MaxPred :
          LET r == eval_model(dev_batches, id2label, DLen(label2id), opt, files,
                              tmp_count, p, score)
              record == r.err = "" /\ improved(r.f1, best_valid)
          IN  /\ files' = r.files
              /\ tmp_count' = r.tmp_count
              /\ last_eval' = EvalSeen(r, "dev")
              /\ pc' = IF r.err # "" THEN "failed" ELSE IF record THEN "save" ELSE "epoch"
              /\ epoch' = IF r.err = "" /\ ~record THEN epoch + 1 ELSE epoch
              /\ hist' = IF r.err = "" /\ ~record
                         THEN Append(hist, [f1 |-> r.f1, wrote |-> FALSE,
                                            before |-> best_valid, after |-> best_valid])
                         ELSE hist
    /\ UNCHANGED <<opt, train_x, train_y, dev_x, dev_y, test_x, test_y,
                   word2id, label2id, id2label, dict_err, cb,
                   train_batches, dev_batches, test_batches, best_valid, test_result,
                   epoch_batches, model_version, n_train_bucketings>>

\* train_model, lines 378-385, and the rest of the loop body (lines 442-454):
\* torch.save, then the test set is evaluated; when that raises, train_and_test's
\* best_valid and test_result are not assigned
SaveAndTest ==
    /\ pc = "save"
    /\ \E score \in Scores, p \in 0..MaxPred :
          LET dev_f1_score == last_eval.f1
              saved == FileWrite(files, ModelPath, model_version)
              r == eval_model(test_batches, id2label, DLen(label2id), opt, saved,
                              tmp_count, p, score)
          IN  /\ files' = r.files
              /\ tmp_count' = r.tmp_count
              /\ last_eval' = EvalSeen(r, "test")
              /\ best_valid' = IF r.err = "" THEN dev_f1_score ELSE best_valid
              /\ test_result' = IF r.err = "" THEN r.f1 ELSE test_result
              /\ hist' = Append(hist, [f1 |-> dev_f1_score, wrote |-> TRUE,
                                       before |-> best_valid,
                                       after |-> IF r.err = "" THEN dev_f1_score
                                                 ELSE best_valid])
              /\ epoch' = IF r.err = "" THEN epoch + 1 ELSE epoch
              /\ pc' = IF r.err = "" THEN "epoch" ELSE "failed"
    /\ UNCHANGED <<opt, train_x, train_y, dev_x, dev_y, test_x, test_y,
                   word2id, label2id, id2label, dict_err, cb,
                   train_batches, dev_batches, test_batches,
                   epoch_batches, model_version, n_train_bucketings>>

\* lines 455-456: the loop is over, the best scores are logged
Finish ==
    /\ pc = "epoch"
    /\ epoch = opt.max_epoch
    /\ pc' = "done"
    /\ UNCHANGED <<opt, files, train_x, train_y, dev_x, dev_y, test_x, test_y,
                   word2id, label2id, id2label, dict_err, cb,
                   train_batches, dev_batches, test_batches, best_valid, test_result,
                   epoch, epoch_batches, model_version, tmp_count, last_eval, hist,
                   n_train_bucketings>>

Next ==
    \/ MakeDict
    \/ BatchTrain
    \/ BatchDev
    \/ BatchTest
    \/ WriteArtifacts
    \/ TrainBatches
    \/ EvalDev
    \/ SaveAndTest
    \/ Finish

\* a run over the given corpora and options
InitRun(trains, devs, tests, epochs, sizes, outs) ==
    /\ Defaults
    /\ cb = [sort |-> TRUE, shuffle |-> TRUE, has_text |-> TRUE]
    /\ files = <<>>
    /\ \E bs \in sizes, out \in outs, me \in epochs :
          opt = [label_set_path |-> "", batch_size |-> bs, output |-> out, max_epoch |-> me]
    /\ \E corpus \in trains : train_x = TokensOf(corpus) /\ train_y = TagsOf(corpus)
    /\ \E corpus \in devs : dev_x = TokensOf(corpus) /\ dev_y = TagsOf(corpus)
    /\ \E corpus \in tests : test_x = TokensOf(corpus) /\ test_y = TagsOf(corpus)

Ex(t) == [tokens |-> t, tags |-> [j \in DOMAIN t |-> TagOf(t[j])]]

\* the epoch loop and the evaluations in it: every sequence of scorer outcomes over
\* MaxEpoch epochs, with and without --output
Init ==
    InitRun(NonEmptySeqsUpTo({Ex(<<S_a>>)}, MaxSents),
            {<<Ex(<<S_b, S_a>>), Ex(<<S_a>>)>>},
            {<<Ex(<<S_a>>)>>},
            {0, MaxEpoch}, 1..MaxBatch, {None, OutputPath})

Spec == Init /\ [][Next]_vars

\* the training batches over the epochs: every training corpus of MaxExamples
\* one-token examples, two epochs
InitShuffle ==
    InitRun({c \in SeqsUpTo({Ex(<<S_a>>), Ex(<<S_b>>)}, MaxExamples) : Len(c) = MaxExamples},
            {<<Ex(<<S_a>>)>>},
            {<<Ex(<<S_a>>)>>},
            {2}, 1..MaxBatch, {None})

SpecShuffle == InitShuffle /\ [][Next]_vars

\* training corpora whose examples may have more or fewer tags than tokens
LooseExamples ==
    {[tokens |-> t, tags |-> g] :
        t \in {<<S_a>>, <<S_a, S_b>>}, g \in SeqsUpTo({S_O}, MaxLen)}

InitSetup ==
    InitRun(SeqsUpTo(LooseExamples, MaxSents),
            {<<Ex(<<S_a>>)>>},
            {<<Ex(<<S_a>>)>>},
            {1}, 1..MaxBatch, {None, OutputPath})

SpecSetup == InitSetup /\ [][Next]_vars

\* evaluation: the validation corpus is drawn freely from the non-empty examples
InitEval ==
    InitRun({<<Ex(<<S_a>>)>>},
            NonEmptySeqsUpTo({e \in Examples : e.tokens # <<>>}, MaxSents),
            {<<Ex(<<S_a>>), Ex(<<S_b, S_a>>)>>},
            {1}, 1..MaxBatch, {None, OutputPath})

SpecEval == InitEval /\ [][Next]_vars

-----------------------------------------------------------------------------
(* Claims about make_dict (specification SpecDict).                        *)

DictReturned == pc = "batch_train"

\* the base labels make_dict was given, as a set and in sorted order
BaseLabels ==
    LET l == label_list(opt, files, train_y, dev_y, test_y) IN {l[i] : i \in DOMAIN l}
SortedBaseLabels == sorted(SetToList(BaseLabels))

\* the distinct training tokens, in sorted order
TrainWords == {flatten(train_x)[i] : i \in DOMAIN flatten(train_x)}
SortedTrainWords == sorted(SetToList(TrainWords))

Injective(d) == \A k1, k2 \in DOMAIN d.val : d.val[k1] = d.val[k2] => k1 = k2

\* C9: for every base-label list given to make_dict, label2id has exactly
\* 2 + 2 * |base_labels| entries: <pad> with id 0, O with id 1, then for each base
\* label in sorted order its B- and I- variants with adjacent ids; no two tags share
\* an id and id2label[label2id[t]] = t for every tag t.
C9_LabelCompleteness ==
    DictReturned =>
        /\ DLen(label2id) = 2 + 2 * Cardinality(BaseLabels)
        /\ DHas(label2id, S_pad) /\ label2id.val[S_pad] = 0
        /\ DHas(label2id, S_O) /\ label2id.val[S_O] = 1
        /\ \A k \in DOMAIN SortedBaseLabels :
              LET b == <<"B", "-">> \o SortedBaseLabels[k]
                  i == <<"I", "-">> \o SortedBaseLabels[k]
              IN  /\ DHas(label2id, b) /\ label2id.val[b] = 2 * k
                  /\ DHas(label2id, i) /\ label2id.val[i] = 2 * k + 1
        /\ Injective(label2id)
        /\ \A t \in DOMAIN label2id.val :
              /\ DHas(id2label, label2id.val[t])
              /\ id2label.val[label2id.val[t]] = t

\* C9 restricted to a label list without repeated entries (always so when the list
\* is derived from the tag sequences): there the code does what C9 says.
C9_HoldsWithoutRepeats ==
    (DictReturned /\ Cardinality(BaseLabels)
                       = Len(label_list(opt, files, train_y, dev_y, test_y)))
        => C9_LabelCompleteness

\* C10: for every training corpus word2id maps <oov> to 0, <pad> to 1 and every
\* distinct training token to an id; the ids are exactly 0 .. len(word2id) - 1, each
\* used by one word, and the training tokens follow the two reserved entries in
\* sorted order.
C10_WordIds ==
    DictReturned =>
        /\ DHas(word2id, S_oov) /\ word2id.val[S_oov] = 0
        /\ DHas(word2id, S_pad) /\ word2id.val[S_pad] = 1
        /\ \A w \in TrainWords : DHas(word2id, w)
        /\ {word2id.val[w] : w \in DOMAIN word2id.val} = 0..(DLen(word2id) - 1)
        /\ Injective(word2id)
        /\ \A k \in DOMAIN SortedTrainWords : word2id.val[SortedTrainWords[k]] = 1 + k

\* C10 restricted to corpora in which neither reserved marker occurs as a token.
C10_HoldsWithoutReserved ==
    (DictReturned /\ S_pad \notin TrainWords /\ S_oov \notin TrainWords) => C10_WordIds

-----------------------------------------------------------------------------
(* Claims about create_batches and create_one_batch (specification         *)
(* SpecBatch).                                                             *)

BatchesReturned == pc = "batched"

\* what the ids of an example must be, from the dicts alone
enc_x(tokens) == [j \in DOMAIN tokens |-> DGet(word2id, tokens[j], word2id.val[S_oov])]
enc_y(tags) == [j \in DOMAIN tags |-> label2id.val[tags[j]]]

\* the multiset of the elements of a list
BagOf(l) == [v \in {l[i] : i \in DOMAIN l} |-> Cardinality({i \in DOMAIN l : l[i] = v})]

\* the rows of all batches, each cut to its entry of the length array
RowsOf(b) ==
    LET rows(k) == [i \in DOMAIN b.x[k] |->
                       [x |-> SubSeq(b.x[k][i], 1, b.lens[k][i]),
                        y |-> SubSeq(b.y[k][i], 1, b.lens[k][i])]]
        RECURSIVE cat(_)
        cat(k) == IF k > Len(b.x) THEN <<>> ELSE rows(k) \o cat(k + 1)
    IN  cat(1)

\* the input examples, as ids
EncodedCorpus(xs, ys) == [i \in DOMAIN xs |-> [x |-> enc_x(xs[i]), y |-> enc_y(ys[i])]]

CeilDiv(n, d) == CHOOSE k \in 0..n : k * d >= n /\ (k - 1) * d < n

\* C2: for a non-empty corpus and a batch size >= 1 the batches create_batches
\* returns hold, ignoring order, exactly the multiset of input examples; there are
\* ceil(n / batch_size) batches, and when batch_size does not divide n the remaining
\* examples form one shorter batch that is kept.
C2_BatchCoverage ==
    BatchesReturned =>
        LET n == Len(dev_x)
            bs == opt.batch_size
            b == dev_batches
        IN  /\ BagOf(RowsOf(b)) = BagOf(EncodedCorpus(dev_x, dev_y))
            /\ Len(b.x) = CeilDiv(n, bs)
            /\ Len(b.y) = Len(b.x) /\ Len(b.lens) = Len(b.x)
            /\ \A k \in DOMAIN b.x :
                  /\ Len(b.x[k]) \in {bs, n % bs} \ {0}
                  /\ Len(b.y[k]) = Len(b.x[k]) /\ Len(b.lens[k]) = Len(b.x[k])
            /\ Cardinality({k \in DOMAIN b.x : Len(b.x[k]) # bs}) = IF n % bs = 0 THEN 0 ELSE 1

\* three examples with batch size 2 came back as a full batch and a shorter one
C2_Witness ==
    /\ BatchesReturned
    /\ Len(dev_x) = 3 /\ opt.batch_size = 2
    /\ Len(dev_batches.x) = 2
    /\ \E k \in DOMAIN dev_batches.x : Len(dev_batches.x[k]) = 1

\* C3: in every batch and every row i, with true_length the i-th entry of the
\* length array returned with the batch, positions [0, true_length) hold the ids of
\* the row's example (its tokens in the token tensor, its tags in the label tensor)
\* and positions [true_length, max_len) hold the word pad id, resp. the label pad id.
C3_Padding ==
    BatchesReturned =>
        \A k \in DOMAIN dev_batches.x :
            LET bx == dev_batches.x[k]
                by == dev_batches.y[k]
                lens == dev_batches.lens[k]
                max_len == SeqMax(lens)
            IN  \A i \in DOMAIN bx :
                    /\ Len(bx[i]) = max_len /\ Len(by[i]) = max_len
                    /\ \E e \in DOMAIN dev_x :
                          /\ Len(dev_x[e]) = lens[i]
                          /\ SubSeq(bx[i], 1, lens[i]) = enc_x(dev_x[e])
                          /\ SubSeq(by[i], 1, lens[i]) = enc_y(dev_y[e])
                    /\ \A j \in (lens[i] + 1)..max_len :
                          /\ bx[i][j] = word2id.val[S_pad]
                          /\ by[i][j] = label2id.val[S_pad]

\* a batch built with sort on whose rows have different lengths, so one is padded
C3_Witness ==
    /\ BatchesReturned
    /\ cb.sort
    /\ \E k \in DOMAIN dev_batches.x :
          \E i, j \in DOMAIN dev_batches.x[k] :
              /\ dev_batches.lens[k][i] = 1
              /\ dev_batches.lens[k][j] = 2
              /\ dev_batches.x[k][i][2] = word2id.val[S_pad]

-----------------------------------------------------------------------------
(* Claims about the epoch loop (specification Spec).                       *)

\* the epochs of the run so far in which model.pl was written
Writes == {i \in DOMAIN hist : hist[i].wrote}

\* C1: across the epoch loop best_valid never decreases from one epoch to the next,
\* and model.pl is written in an epoch exactly when that epoch's validation F1 is
\* strictly above the validation F1 of every earlier epoch; an epoch that only ties
\* the best writes nothing.  model.pl holds the parameters of the last such epoch.
C1_BestCheckpoint ==
    /\ \A i \in DOMAIN hist :
          /\ hist[i].wrote <=> \A j \in 1..(i - 1) : hist[i].f1 > hist[j].f1
          /\ hist[i].before <= hist[i].after
          /\ hist[i].before = IF i = 1 THEN BestInit ELSE hist[i - 1].after
    /\ best_valid = IF hist = <<>> THEN BestInit ELSE hist[Len(hist)].after
    /\ IF Writes = {} THEN ModelPath \notin DOMAIN files
       ELSE /\ ModelPath \in DOMAIN files
            /\ files[ModelPath] \in Writes
            /\ \A i \in Writes : i <= files[ModelPath]

\* three epochs: a first record, a tie that writes nothing, a new record
C1_Witness ==
    /\ pc = "done"
    /\ Len(hist) = 3
    /\ hist[1].wrote
    /\ hist[2].f1 = hist[1].f1 /\ ~hist[2].wrote
    /\ hist[3].f1 > hist[1].f1 /\ hist[3].wrote
    /\ files[ModelPath] = 3
    /\ best_valid = hist[3].f1

\* C6 as stated: the temporary file of an eval_model call with no --output is gone
\* when the call ends, whether scoring succeeded or failed.
C6_TempFileDeleted ==
    (last_eval.called /\ opt.output = None) => last_eval.path \notin DOMAIN files

\* C7 as stated: with --output given, the rendered predictions are at that path after
\* eval_model has returned.
C7_OutputKept ==
    (last_eval.called /\ last_eval.err = "" /\ opt.output # None) =>
        /\ opt.output \in DOMAIN files
        /\ files[opt.output] = last_eval.rendered

-----------------------------------------------------------------------------
(* Claims about the training batches over the epochs (SpecShuffle).        *)

\* C4 as stated: every epoch buckets the training examples into batches anew, so by
\* the time the model has trained for k epochs create_batches has run k times on the
\* training corpus.
C4_RebucketEachEpoch == n_train_bucketings >= model_version

\* C4, amended: the training corpus is bucketed once, before the first epoch; an epoch
\* iterates over exactly those batches and draws only their order anew.
C4_BatchesFixed ==
    /\ n_train_bucketings <= 1
    /\ epoch_batches # <<>> =>
          /\ n_train_bucketings = 1
          /\ BagOf(epoch_batches) = BagOf(BatchList(train_batches))

\* the second epoch went through two different batches in another order than
\* create_batches returned them
C4_Witness ==
    /\ model_version = 2
    /\ Len(epoch_batches) = 2
    /\ epoch_batches[1] # epoch_batches[2]
    /\ epoch_batches # BatchList(train_batches)

-----------------------------------------------------------------------------
(* Claims about the set-up of a run (specification SpecSetup).             *)

\* some training example has more or fewer tags than tokens
HasMismatch == \E i \in DOMAIN train_x : Len(train_x[i]) # Len(train_y[i])

\* C8 as stated: with a training example whose token and tag sequences differ in
\* length the run builds no batches, writes no artifact and no checkpoint, and does
\* not train.
C8_MismatchRejected ==
    HasMismatch =>
        /\ train_batches.err # ""
        /\ (ArtifactPaths \cup {ModelPath}) \cap DOMAIN files = {}
        /\ model_version = 0

-----------------------------------------------------------------------------
(* Claims about eval_model's rendering (specification SpecEval).           *)

DigitChars == <<"0", "1", "2", "3", "4", "5", "6", "7", "8", "9">>

RECURSIVE Decimal(_)
\* n in decimal
Decimal(n) ==
    IF n < 10 THEN <<DigitChars[n + 1]>>
    ELSE Decimal(n \div 10) \o <<DigitChars[(n % 10) + 1]>>

RECURSIVE JoinSp(_)
\* the columns of a line, one space between two
JoinSp(cols) ==
    IF Len(cols) = 1 THEN cols[1] ELSE cols[1] \o <<" ">> \o JoinSp(Tail(cols))

\* what a prediction can be: any label but <pad>
PredLabels == {id2label.val[i] : i \in DOMAIN id2label.val} \ {S_pad}

\* lines are the lines of one sentence: one per token, then an empty one
SentenceOK(lines, tokens, tags, with_index) ==
    /\ Len(lines) = Len(tokens) + 1
    /\ lines[Len(tokens) + 1] = <<>>
    /\ \A k \in DOMAIN tokens : \E pred \in PredLabels :
          lines[k] = JoinSp((IF with_index THEN <<Decimal(k)>> ELSE <<>>)
                            \o <<tokens[k], tags[k], pred>>)

RECURSIVE CorpusOK(_, _, _, _)
\* lines are the lines of the sentences xs with the tags ys, in order
CorpusOK(lines, xs, ys, with_index) ==
    IF xs = <<>> THEN lines = <<>>
    ELSE /\ Len(lines) >= Len(xs[1]) + 1
         /\ SentenceOK(SubSeq(lines, 1, Len(xs[1]) + 1), xs[1], ys[1], with_index)
         /\ CorpusOK(SubSeq(lines, Len(xs[1]) + 2, Len(lines)), Tail(xs), Tail(ys),
                     with_index)

EvaluatedX == IF last_eval.on = "dev" THEN dev_x ELSE test_x
EvaluatedY == IF last_eval.on = "dev" THEN dev_y ELSE test_y

\* C5 as stated: one line per real token with the four columns index, word, true
\* tag, predicted tag, the index counting from 1 within the sentence, and an empty
\* line after each sentence.
C5_FourColumns ==
    last_eval.called => CorpusOK(last_eval.rendered, EvaluatedX, EvaluatedY, TRUE)

\* C5, amended: one line per real token with the three columns word, true tag,
\* predicted tag (no index), an empty line after each sentence, and no line for a
\* padded position.
C5_ThreeColumns ==
    last_eval.called => CorpusOK(last_eval.rendered, EvaluatedX, EvaluatedY, FALSE)

\* the validation set was rendered, and one of its batches has a padded row
C5_Witness ==
    /\ last_eval.called /\ last_eval.on = "dev"
    /\ \E k \in DOMAIN dev_batches.x : \E i \in DOMAIN dev_batches.x[k] :
          dev_batches.lens[k][i] < Len(dev_batches.x[k][i])
    /\ Len(last_eval.rendered) = SeqSum([i \in DOMAIN dev_x |-> Len(dev_x[i]) + 1])

-----------------------------------------------------------------------------
(* Claims about the text create_batches returns (specification SpecBatch). *)

\* row i of batch k of b carries the example whose tokens are b.text[k][i]
RowMatchesText(b, k, i) ==
    LET t == b.text[k][i]
    IN  /\ b.lens[k][i] = Len(t)
        /\ SubSeq(b.x[k][i], 1, Len(t)) = enc_x(t)
        /\ \E e \in DOMAIN dev_x :
              /\ dev_x[e] = t
              /\ SubSeq(b.y[k][i], 1, Len(t)) = enc_y(dev_y[e])

\* C11 as stated: after create_batches was called with a text list, for every batch
\* k and row i the token strings batches_text[k][i] are those of the example whose
\* token ids are in row i of batches_x[k], whose tag ids are in batches_y[k] and
\* whose length is in batches_lens[k], for every setting of sort and shuffle.
C11_TextAligned ==
    (BatchesReturned /\ dev_batches.has_text) =>
        /\ Len(dev_batches.text) = Len(dev_batches.x)
        /\ \A k \in DOMAIN dev_batches.x :
              /\ Len(dev_batches.text[k]) = Len(dev_batches.x[k])
              /\ \A i \in DOMAIN dev_batches.x[k] : RowMatchesText(dev_batches, k, i)

\* C11 restricted to sort=False, the setting of the validation and test batches:
\* there the text stays with its rows.
C11_HoldsWithoutSort == ~cb.sort => C11_TextAligned

-----------------------------------------------------------------------------
(* Claims about the labels derived from the tags (specification SpecDict). *)

\* every tag string of the three splits
AllTags ==
    LET l == flatten(train_y) \o flatten(dev_y) \o flatten(test_y)
    IN  {l[i] : i \in DOMAIN l}

\* O, or B- or I- followed by a label that purify leaves as it is
IsBIO(tag) ==
    \/ tag = S_O
    \/ /\ Len(tag) > 2
       /\ tag[1] \in {"B", "I"} /\ tag[2] = "-"
       /\ purify(<<SubSeq(tag, 3, Len(tag))>>) = {SubSeq(tag, 3, Len(tag))}

\* C12 as stated: when the labels are derived from the train, dev and test tags,
\* every tag string that occurs in them is a key of label2id, so label2id[tag] in
\* create_one_batch succeeds for every tag of every split.
C12_TagsAreKeys ==
    (DictReturned /\ opt.label_set_path = "") =>
        \A tag \in AllTags : DHas(label2id, tag)

\* C12 restricted to corpora whose tags are all O, B-label or I-label.
C12_HoldsForBIO ==
    (\A tag \in AllTags : IsBIO(tag)) => C12_TagsAreKeys

====
